---------------------------- MODULE Spec2Model ----------------------------
(***************************************************************************)
(* Model of the RAG orchestration service (src/src/services/rag_service.py) *)
(* with its input validators (src/src/utils/validators.py) and the except   *)
(* dispatch of the Streamlit front end (src/src/frontend.py).               *)
(*                                                                          *)
(* Strings are sequences of one-character strings, so that parsing,         *)
(* trimming and character removal are computed and not assumed.             *)
(* Exception messages are sequences of string fragments; an f-string is the *)
(* concatenation of its fragments.                                          *)
(***************************************************************************)
EXTENDS Integers, Sequences, FiniteSets, TLC

(***************************************************************************)
(* Program constants (src/src/config.py, src/src/utils/validators.py)       *)
(***************************************************************************)
MAX_URLS_PER_REQUEST == 10

MAX_QUERY_LENGTH == 500

QUERY_SLICE == 1000

(***************************************************************************)
(* Bounds of the model                                                      *)
(***************************************************************************)
\* by how many elements the longest URL list of the validators specification
\* exceeds MAX_URLS_PER_REQUEST
ExtraUrls == 2

\* process_urls runs started in one behaviour
MaxRuns == 2

\* greatest number of chunks the splitter cuts one document into
MaxParts == 2

\* greatest length of the short queries of the query specification
MaxQueryLen == 3

(***************************************************************************)
(* Characters and strings                                                   *)
(***************************************************************************)
\* Python's None, as the value of a handle that was not constructed
None == 0

Letters == {"a", "f", "h", "p", "s", "t", "H", "T", "P"}

Digits == {"8"}

\* scheme_chars of urllib.parse: letters, digits and "+-."
SchemeChars == Letters \cup Digits \cup {"+", "-", "."}

Lower(c) ==
    CASE c = "H" -> "h"
      [] c = "T" -> "t"
      [] c = "P" -> "p"
      [] OTHER -> c

LowerStr(s) == [i \in 1..Len(s) |-> Lower(s[i])]

\* str.find: 1-based index of the first occurrence of character c, 0 if none
Find(s, c) ==
    IF \E i \in 1..Len(s) : s[i] = c
    THEN CHOOSE i \in 1..Len(s) : s[i] = c /\ \A j \in 1..(i-1) : s[j] # c
    ELSE 0

\* s[k:] of Python with k 0-based, i.e. drop the first k characters
Drop(s, k) == IF k >= Len(s) THEN <<>> ELSE SubSeq(s, k + 1, Len(s))

\* s[:k] of Python
Take(s, k) == IF k >= Len(s) THEN s ELSE SubSeq(s, 1, k)

Repeat(c, n) == [i \in 1..n |-> c]

(***************************************************************************)
(* urllib.parse.urlparse, as far as validate_url reads its result: the      *)
(* scheme (lower-cased) and the netloc.  hostname is the attribute of the   *)
(* parse result that holds the host.  Values computed once in the Python    *)
(* code are passed on as parameters.                                        *)
(***************************************************************************)
\* the least element of the set S of numbers, d if S is empty
MinOr(S, d) == IF S = {} THEN d ELSE CHOOSE k \in S : \A m \in S : k <= m

\* the greatest element of the set S of numbers, d if S is empty
MaxOr(S, d) == IF S = {} THEN d ELSE CHOOSE k \in S : \A m \in S : m <= k

\* i is the index of the first ":" of url (0 if none): i when the characters
\* before it form a scheme, 0 otherwise
SchemeEnd(url, i) ==
    IF /\ i > 1
       /\ url[1] \in Letters
       /\ \A j \in 1..(i-1) : url[j] \in SchemeChars
    THEN i ELSE 0

\* _splitnetloc: the characters of after up to the first of "/", "?", "#"
UpToDelimiter(after) ==
    Take(after, MinOr({k \in 1..Len(after) : after[k] \in {"/", "?", "#"}},
                      Len(after) + 1) - 1)

\* the netloc of what follows the scheme
NetlocOf(rest) ==
    IF Len(rest) >= 2 /\ rest[1] = "/" /\ rest[2] = "/"
    THEN UpToDelimiter(Drop(rest, 2))
    ELSE <<>>

\* urlsplit with the end of the scheme known
urlsplit(url, i) ==
    [scheme |-> IF i > 0 THEN LowerStr(Take(url, i - 1)) ELSE <<>>,
     netloc |-> NetlocOf(IF i > 0 THEN Drop(url, i) ELSE url)]

urlparse(url) == urlsplit(url, SchemeEnd(url, Find(url, ":")))

\* the part of hostport before its first ":", whose index is c (0 if none)
BeforePort(hostport, c) == LowerStr(IF c = 0 THEN hostport ELSE Take(hostport, c - 1))

\* the part of netloc after its last "@"
AfterUserinfo(netloc) ==
    Drop(netloc, MaxOr({k \in 1..Len(netloc) : netloc[k] = "@"}, 0))

\* ParseResult.hostname: the netloc after the last "@", up to the first ":"
hostname(netloc) ==
    BeforePort(AfterUserinfo(netloc), Find(AfterUserinfo(netloc), ":"))

(***************************************************************************)
(* Exceptions                                                               *)
(***************************************************************************)
Exc(type, msg) == [type |-> type, msg |-> msg]

Returned(v) == [ok |-> TRUE, value |-> v]

Raised(e) == [ok |-> FALSE, exc |-> e]

(***************************************************************************)
(* validators.py                                                            *)
(***************************************************************************)
\* the tests of validate_url on the parse result
validate_url_tests(url, parsed) ==
    IF parsed.scheme = <<>> \/ parsed.netloc = <<>>
    THEN Raised(Exc("ValidationError", <<"Invalid URL: ">> \o url))
    ELSE IF parsed.scheme \notin {<<"h","t","t","p">>, <<"h","t","t","p","s">>}
    THEN Raised(Exc("ValidationError", <<"Unsupported URL scheme: ">> \o parsed.scheme))
    ELSE Returned(TRUE)

\* the except clause of validate_url: every exception the try block raised is
\* replaced
validate_url_except(url, r) ==
    IF r.ok THEN r
    ELSE Raised(Exc("ValidationError",
                    <<"Error validating URL '">> \o url \o <<"': ">> \o r.exc.msg))

validate_url(url) == validate_url_except(url, validate_url_tests(url, urlparse(url)))

\* index of the first URL on which validate_url raises, 0 if there is none
FirstInvalid(urls) == MinOr({k \in 1..Len(urls) : ~validate_url(urls[k]).ok}, 0)

\* the tests of validate_urls after its loop
validate_urls_limits(valid_urls) ==
    IF Len(valid_urls) > MAX_URLS_PER_REQUEST
    THEN Raised(Exc("ValidationError", <<"Exceeded maximum allowed URLs: ", "10">>))
    ELSE IF valid_urls = <<>>
    THEN Raised(Exc("ValidationError", <<"No valid URLs provided">>))
    ELSE Returned(valid_urls)

\* the loop of validate_urls, which ends at the first URL, urls[k], on which
\* validate_url raises (k = 0: on none)
validate_urls_loop(urls, k) ==
    IF k # 0
    THEN validate_url(urls[k])
    ELSE validate_urls_limits(SelectSeq(urls, LAMBDA u : validate_url(u).value))

validate_urls(urls) ==
    IF urls = <<>>
    THEN Raised(Exc("ValidationError", <<"At least one URL must be provided">>))
    ELSE validate_urls_loop(urls, FirstInvalid(urls))

\* characters str.strip() removes (of those the model's queries are made of)
Whitespace == {" ", "\t", "\n"}

\* index of the first character of s at or after k that is not whitespace
RECURSIVE FirstKept(_, _)
FirstKept(s, k) ==
    IF k > Len(s) \/ s[k] \notin Whitespace THEN k ELSE FirstKept(s, k + 1)

\* index of the last character of s at or before k that is not whitespace
RECURSIVE LastKept(_, _)
LastKept(s, k) ==
    IF k = 0 \/ s[k] \notin Whitespace THEN k ELSE LastKept(s, k - 1)

\* the characters of s from index lo to index hi, none if lo > hi
Between(s, lo, hi) == IF lo > hi THEN <<>> ELSE SubSeq(s, lo, hi)

\* str.strip()
Strip(s) == Between(s, FirstKept(s, 1), LastKept(s, Len(s)))

Harmful == {"<", ">", "\"", "'"}

\* validate_query_stripped with a pattern that names only the angle brackets
validate_query_stripped_keeps_quotes(q) ==
    IF Len(q) > MAX_QUERY_LENGTH
    THEN Raised(Exc("ValidationError",
                    <<"Query too long. Maximum ", "500", " characters allowed">>))
    ELSE Returned(Take(SelectSeq(q, LAMBDA c : c \notin {"<", ">"}), QUERY_SLICE))

\* validate_query after the emptiness test, on the stripped query
validate_query_stripped(q) ==
    IF Len(q) > MAX_QUERY_LENGTH
    THEN Raised(Exc("ValidationError",
                    <<"Query too long. Maximum ", "500", " characters allowed">>))
    ELSE Returned(Take(SelectSeq(q, LAMBDA c : c \notin Harmful), QUERY_SLICE))

validate_query(query) ==
    IF query = <<>> \/ Strip(query) = <<>>
    THEN Raised(Exc("ValidationError", <<"Query cannot be empty">>))
    ELSE validate_query_stripped(Strip(query))

(***************************************************************************)
(* State                                                                    *)
(***************************************************************************)
VARIABLES
    self,          \* the RAGService object: _llm, _vector_store, _embeddings, _initialized
    built,         \* per client, the number of constructor calls that succeeded
    collection,    \* the entries of the persisted Chroma collection
    uuid_counter,  \* the number of uuid4() values generated so far
    run,           \* the number of process_urls runs started
    pc,            \* position of the current process_urls generator
    urls,          \* argument of the current process_urls run
    valid_urls, documents, chunks, uuids,   \* its locals
    yielded,       \* status messages the run has yielded
    steps,         \* the steps the run has called, in call order
    raised,        \* the exception the run raised, or NoExc
    origin,        \* the exception that reached the except clause of the run
    failed_at,     \* the step in which that exception arose
    init_completed, \* whether an initialize() call of process_urls has returned
    \* what the most recent call of the service returned or raised, by method
    \* (each call of the service clears the records of the other methods; calls
    \* are made one at a time, a process_urls generator being run to its end
    \* before the next call, as in frontend.py:113 and rag_service.py:294):
    ans,           \* generate_answer
    info,          \* get_collection_info
    health,        \* health_check
    vin, vout      \* input and outcome of a validator call (validators specification)

vars == <<self, built, collection, uuid_counter, run, pc, urls, valid_urls,
          documents, chunks, uuids, yielded, steps, raised, origin,
          failed_at, init_completed, ans, info, health, vin, vout>>

\* the outcomes of the calls other than process_urls
calls == <<ans, info, health, vin, vout>>

puvars == <<run, pc, urls, valid_urls, documents, chunks, uuids, yielded,
            steps, raised, origin, failed_at>>

NoExc == Exc("", <<>>)

\* an exception of a library, which is none of the classes of utils/exceptions.py
Foreign(msg) == Exc("Exception", <<msg>>)

(***************************************************************************)
(* RAGService: the lazily constructed handles.  w is [self, built]; ok says *)
(* whether the client's constructor, if it is called, succeeds.             *)
(***************************************************************************)
RAGService_init ==
    [_llm |-> None, _vector_store |-> None, _embeddings |-> None,
     _initialized |-> FALSE]

\* variant of llm that constructs the client on every access
llm_rebuilds(w, ok) ==
    IF ok
    THEN LET h == w.built.llm + 1
         IN [w |-> [self |-> [w.self EXCEPT !._llm = h],
                    built |-> [w.built EXCEPT !.llm = h]],
             r |-> Returned(h)]
    ELSE [w |-> w,
          r |-> Raised(Exc("LLMError",
                   <<"LLM initialization failed: ", "ChatGroq failed">>))]

llm(w, ok) ==
    IF w.self._llm = None
    THEN IF ok
         THEN LET h == w.built.llm + 1
              IN [w |-> [self |-> [w.self EXCEPT !._llm = h],
                         built |-> [w.built EXCEPT !.llm = h]],
                  r |-> Returned(h)]
         ELSE [w |-> w,
               r |-> Raised(Exc("LLMError",
                        <<"LLM initialization failed: ", "ChatGroq failed">>))]
    ELSE [w |-> w, r |-> Returned(w.self._llm)]

embeddings(w, ok) ==
    IF w.self._embeddings = None
    THEN IF ok
         THEN LET h == w.built.embeddings + 1
              IN [w |-> [self |-> [w.self EXCEPT !._embeddings = h],
                         built |-> [w.built EXCEPT !.embeddings = h]],
                  r |-> Returned(h)]
         ELSE [w |-> w,
               r |-> Raised(Exc("VectorStoreError",
                        <<"Embeddings initialization failed: ",
                          "HuggingFaceEmbeddings failed">>))]
    ELSE [w |-> w, r |-> Returned(w.self._embeddings)]

\* the Chroma(...) call evaluates self.embeddings inside the try block
vector_store(w, okE, okV) ==
    IF w.self._vector_store = None
    THEN LET e == embeddings(w, okE)
         IN IF ~e.r.ok
            THEN [w |-> e.w,
                  r |-> Raised(Exc("VectorStoreError",
                           <<"Vector store initialization failed: ">> \o e.r.exc.msg))]
            ELSE IF okV
            THEN LET h == e.w.built.vector_store + 1
                 IN [w |-> [self |-> [e.w.self EXCEPT !._vector_store = h],
                            built |-> [e.w.built EXCEPT !.vector_store = h]],
                     r |-> Returned(h)]
            ELSE [w |-> e.w,
                  r |-> Raised(Exc("VectorStoreError",
                           <<"Vector store initialization failed: ", "Chroma failed">>))]
    ELSE [w |-> w, r |-> Returned(w.self._vector_store)]

\* ext: for each client, whether its constructor succeeds if it is called
Ext == [llm : BOOLEAN, embeddings : BOOLEAN, vector_store : BOOLEAN]

\* the choices of ext that differ in effect on obj: the constructor of a
\* client that exists is not called
ExtFor(obj) ==
    {e \in Ext : /\ obj._llm # None => e.llm
                 /\ obj._embeddings # None => e.embeddings
                 /\ obj._vector_store # None => e.vector_store}

initialize(w, ext) ==
    IF w.self._initialized
    THEN [w |-> w, r |-> Returned(None)]
    ELSE LET a == llm(w, ext.llm)
         IN IF ~a.r.ok THEN a
            ELSE LET b == embeddings(a.w, ext.embeddings)
                 IN IF ~b.r.ok THEN b
                    ELSE LET c == vector_store(b.w, ext.embeddings, ext.vector_store)
                         IN IF ~c.r.ok THEN c
                            ELSE [w |-> [c.w EXCEPT !.self._initialized = TRUE],
                                  r |-> Returned(None)]

\* error_handler logs and re-raises what its block raised
error_handler(r) == r

(***************************************************************************)
(* The inputs of the service specification                                  *)
(***************************************************************************)
GoodUrl == <<"h","t","t","p","s",":","/","/","a",".","a","/","p">>

OtherUrl == <<"H","T","T","P",":","/","/","a",".","a",":","8">>

FtpUrl == <<"f","t","p",":","/","/","a",".","a">>

BareUrl == <<"a",".","a","/","p">>

\* URL lists a caller passes to process_urls
UrlLists ==
    { <<>>, <<GoodUrl>>, <<GoodUrl, OtherUrl>>, <<GoodUrl, FtpUrl>>, <<BareUrl>>,
      [i \in 1..(MAX_URLS_PER_REQUEST + 1) |-> GoodUrl] }

\* queries a caller passes to generate_answer
Queries ==
    { <<>>, <<" ", " ">>, <<" ", "a", "<", "b", ">", "'", " ">>,
      <<"<", ">">>, Repeat("a", MAX_QUERY_LENGTH + 1) }

\* what the loader returns for the URLs: one document for each URL it could
\* fetch, in order; parts is the number of chunks the splitter cuts it into
RECURSIVE LoadResults(_)
LoadResults(n) ==
    IF n = 0 THEN {<<>>}
    ELSE LET shorter == LoadResults(n - 1)
         IN shorter \cup
            {Append(d, [source |-> n, parts |-> k]) : d \in shorter, k \in 0..MaxParts}

\* RecursiveCharacterTextSplitter.split_documents: the chunks of each
\* document in document order
RECURSIVE split_documents(_, _)
split_documents(r, docs) ==
    IF docs = <<>> THEN <<>>
    ELSE LET k == Len(docs)
         IN split_documents(r, SubSeq(docs, 1, k - 1)) \o
            [j \in 1..docs[k].parts |-> [run |-> r, doc |-> k, part |-> j]]

\* [str(uuid4()) for _ in range(n)]: n values never generated before
uuid4s(counter, n) == [i \in 1..n |-> counter + i]

\* the entries Chroma.add_documents stores for the first k chunks
Entries(cs, ids, k) == {[id |-> ids[i], chunk |-> cs[i]] : i \in 1..k}

\* an entry left in the persisted collection by an earlier process
StaleEntry == [id |-> 0, chunk |-> [run |-> 0, doc |-> 1, part |-> 1]]

(***************************************************************************)
(* process_urls: a generator; each action runs it from one yield to the     *)
(* next.                                                                     *)
(***************************************************************************)
\* no generator of process_urls is suspended
NoRunInProgress == pc \in {"idle", "done", "failed"}

NoInfo == [status |-> "none"]

NoHealth == [overall |-> "none"]

NoAns ==
    [outcome |-> "none", exc |-> NoExc, origin |-> NoExc, value |-> <<>>, stage |-> "",
     valid |-> FALSE, init_completed |-> FALSE, clean_query |-> <<>>,
     invoked |-> <<>>, retriever_calls |-> 0, llm_uses |-> 0]

MsgInit == "Initializing components..."

MsgReset == "Resetting vector store..."

MsgLoad == "Loading data from URLs..."

MsgSplit == "Splitting text into chunks..."

MsgAdd == "Adding chunks to vector database..."

MsgDone == "Successfully processed all URLs!"

\* variant in which the collection keeps its entries
reset_collection_keeps(c) == c

\* Chroma.reset_collection, when it succeeds: the collection is deleted and
\* created again, empty
reset_collection(c) == {}

\* variant without the test
no_documents_unchecked(docs) == FALSE

\* the test "if not documents" after the loader returned
no_documents(docs) == docs = <<>>

NoDocuments ==
    Exc("URLProcessingError", <<"No documents were loaded from the provided URLs">>)

\* variant of the except clause that re-raises every exception of
\* utils/exceptions.py unchanged
process_urls_except_own(e) ==
    IF e.type \in {"URLProcessingError", "VectorStoreError", "LLMError",
                   "ValidationError"}
    THEN e
    ELSE Exc("URLProcessingError", <<"URL processing failed: ">> \o e.msg)

\* the except clause of process_urls
process_urls_except(e) ==
    IF e.type \in {"URLProcessingError", "VectorStoreError"}
    THEN e
    ELSE Exc("URLProcessingError", <<"URL processing failed: ">> \o e.msg)

\* the generator ends by raising e, which arose in step
PU_Raise(e, step) ==
    /\ raised' = process_urls_except(e)
    /\ origin' = e
    /\ failed_at' = step
    /\ pc' = "failed"

\* the generator reaches its next yield
PU_Yield(msg, next) ==
    /\ yielded' = Append(yielded, msg)
    /\ pc' = next
    /\ UNCHANGED <<raised, origin, failed_at>>

\* the call process_urls(u): creates the generator, runs nothing
process_urls(u) ==
    /\ NoRunInProgress
    /\ run < MaxRuns
    /\ run' = run + 1
    /\ urls' = u
    /\ pc' = "start"
    /\ valid_urls' = <<>>
    /\ documents' = <<>>
    /\ chunks' = <<>>
    /\ uuids' = <<>>
    /\ yielded' = <<>>
    /\ steps' = <<>>
    /\ raised' = NoExc
    /\ origin' = NoExc
    /\ failed_at' = ""
    /\ ans' = NoAns
    /\ info' = NoInfo
    /\ health' = NoHealth
    /\ UNCHANGED <<self, built, collection, uuid_counter, init_completed, vin, vout>>

\* the first stretch of the generator, r being what validate_urls(urls) did
PU_ValidateThen(r) ==
    IF r.ok
    THEN valid_urls' = r.value /\ PU_Yield(MsgInit, "initialize")
    ELSE PU_Raise(r.exc, "validate_urls") /\ UNCHANGED <<valid_urls, yielded>>

PU_Validate ==
    /\ pc = "start"
    /\ steps' = Append(steps, "validate_urls")
    /\ PU_ValidateThen(validate_urls(urls))
    /\ UNCHANGED <<self, built, collection, uuid_counter, run, urls, documents,
                   chunks, uuids, init_completed, calls>>

PU_Initialize ==
    /\ pc = "initialize"
    /\ steps' = Append(steps, "initialize")
    /\ \E ext \in ExtFor(self) :
         LET i == initialize([self |-> self, built |-> built], ext)
         IN /\ self' = i.w.self
            /\ built' = i.w.built
            /\ init_completed' = (init_completed \/ i.r.ok)
            /\ IF i.r.ok
               THEN PU_Yield(MsgReset, "reset_collection")
               ELSE PU_Raise(i.r.exc, "initialize") /\ UNCHANGED yielded
    /\ UNCHANGED <<collection, uuid_counter, run, urls, valid_urls, documents,
                   chunks, uuids, calls>>

\* okR: whether Chroma.reset_collection succeeds; a failing reset may or may
\* not have deleted the collection
PU_Reset ==
    /\ pc = "reset_collection"
    /\ steps' = Append(steps, "reset_collection")
    /\ \E ext \in ExtFor(self), okR \in BOOLEAN, deleted \in BOOLEAN :
         LET v == vector_store([self |-> self, built |-> built],
                               ext.embeddings, ext.vector_store)
             r == error_handler(IF ~v.r.ok THEN v.r
                                ELSE IF okR THEN Returned(None)
                                ELSE Raised(Foreign("reset_collection failed")))
         IN /\ self' = v.w.self
            /\ built' = v.w.built
            /\ okR => deleted
            /\ ~v.r.ok => ~deleted
            /\ collection' = IF deleted THEN reset_collection(collection)
                              ELSE collection
            /\ IF r.ok
               THEN PU_Yield(MsgLoad, "load")
               ELSE PU_Raise(r.exc, "reset_collection") /\ UNCHANGED yielded
    /\ UNCHANGED <<uuid_counter, run, urls, valid_urls, documents, chunks, uuids,
                   init_completed, calls>>

PU_Load ==
    /\ pc = "load"
    /\ steps' = Append(steps, "load")
    /\ \/ \E docs \in LoadResults(Len(valid_urls)) :
            /\ documents' = docs
            /\ IF no_documents(docs)
               THEN PU_Raise(NoDocuments, "load") /\ UNCHANGED yielded
               ELSE PU_Yield(MsgSplit, "split")
       \/ /\ PU_Raise(error_handler(Raised(Foreign("loader failed"))).exc, "load")
          /\ UNCHANGED <<documents, yielded>>
    /\ UNCHANGED <<self, built, collection, uuid_counter, run, urls, valid_urls,
                   chunks, uuids, init_completed, calls>>

\* variant of PU_Split that does not yield its status message
PU_Split_silent ==
    /\ pc = "split"
    /\ steps' = Append(steps, "split")
    /\ \/ /\ chunks' = split_documents(run, documents)
          /\ pc' = "add_documents"
          /\ UNCHANGED <<yielded, raised, origin, failed_at>>
       \/ /\ PU_Raise(error_handler(Raised(Foreign("splitter failed"))).exc, "split")
          /\ UNCHANGED <<chunks, yielded>>
    /\ UNCHANGED <<self, built, collection, uuid_counter, run, urls, valid_urls,
                   documents, uuids, init_completed, calls>>

PU_Split ==
    /\ pc = "split"
    /\ steps' = Append(steps, "split")
    /\ \/ /\ chunks' = split_documents(run, documents)
          /\ PU_Yield(MsgAdd, "add_documents")
       \/ /\ PU_Raise(error_handler(Raised(Foreign("splitter failed"))).exc, "split")
          /\ UNCHANGED <<chunks, yielded>>
    /\ UNCHANGED <<self, built, collection, uuid_counter, run, urls, valid_urls,
                   documents, uuids, init_completed, calls>>

\* stored: the number of leading chunks add_documents stored before it
\* returned (all of them) or raised (any number)
PU_Add ==
    /\ pc = "add_documents"
    /\ steps' = Append(steps, "add_documents")
    /\ uuids' = uuid4s(uuid_counter, Len(chunks))
    /\ uuid_counter' = uuid_counter + Len(chunks)
    /\ \E ext \in ExtFor(self), okA \in BOOLEAN, stored \in 0..Len(chunks) :
         LET v == vector_store([self |-> self, built |-> built],
                               ext.embeddings, ext.vector_store)
             r == error_handler(IF ~v.r.ok THEN v.r
                                ELSE IF okA THEN Returned(None)
                                ELSE Raised(Foreign("add_documents failed")))
         IN /\ self' = v.w.self
            /\ built' = v.w.built
            /\ okA => stored = Len(chunks)
            /\ ~v.r.ok => stored = 0
            /\ collection' = collection \cup Entries(chunks, uuids', stored)
            /\ IF r.ok
               THEN PU_Yield(MsgDone, "finish")
               ELSE PU_Raise(r.exc, "add_documents") /\ UNCHANGED yielded
    /\ UNCHANGED <<run, urls, valid_urls, documents, chunks, init_completed, calls>>

\* after the last yield the generator logs and returns
PU_Finish ==
    /\ pc = "finish"
    /\ pc' = "done"
    /\ UNCHANGED <<self, built, collection, uuid_counter, run, urls, valid_urls,
                   documents, chunks, uuids, yielded, steps, raised, origin,
                   failed_at, init_completed, calls>>

(***************************************************************************)
(* generate_answer                                                          *)
(***************************************************************************)
\* variant of the except clause that re-raises every exception of
\* utils/exceptions.py unchanged
generate_answer_except_own(e) ==
    IF e.type \in {"URLProcessingError", "VectorStoreError", "LLMError",
                   "ValidationError"}
    THEN e
    ELSE Exc("LLMError", <<"Answer generation failed: ">> \o e.msg)

\* the except clause of generate_answer
generate_answer_except(e) ==
    IF e.type \in {"LLMError", "VectorStoreError"}
    THEN e
    ELSE Exc("LLMError", <<"Answer generation failed: ">> \o e.msg)

NotInitialized ==
    Exc("VectorStoreError",
        <<"Vector store not initialized. Please process URLs first.">>)

\* variant of the guard that tests the handle alone
generate_answer_refuses_handle_only(obj) == obj._vector_store = None

\* the guard of generate_answer that refuses to answer
generate_answer_refuses(obj) == ~obj._initialized \/ obj._vector_store = None

\* result.get(key, default) on the dictionary chain.invoke returned
DictGet(d, key, default) == IF key \in DOMAIN d THEN d[key] ELSE default

\* the dictionaries chain.invoke can return
ChainResults ==
    { [answer |-> "A", sources |-> "S"], [answer |-> "A"], [sources |-> "S"] }

\* the record of a call: how it ended, in which stage, and what it called
AnsRaised(e, stage, v, invoked, retrievers, llms) ==
    [outcome |-> "raised", exc |-> generate_answer_except(e), origin |-> e,
     value |-> <<>>,
     stage |-> stage, valid |-> v.ok, init_completed |-> init_completed,
     clean_query |-> IF v.ok THEN v.value ELSE <<>>,
     invoked |-> invoked, retriever_calls |-> retrievers, llm_uses |-> llms]

\* generate_answer, v being what validate_query(query) did;
\* fail: the library call that raises in this call, if it is reached
generate_answer_validated(v) ==
    IF ~v.ok
    THEN /\ ans' = AnsRaised(v.exc, "validate_query", v, <<>>, 0, 0)
         /\ UNCHANGED <<self, built>>
    ELSE IF generate_answer_refuses(self)
    THEN /\ ans' = AnsRaised(NotInitialized, "guard", v, <<>>, 0, 0)
         /\ UNCHANGED <<self, built>>
    ELSE \E ext \in ExtFor(self), fail \in {"none", "as_retriever", "from_llm", "invoke"} :
      \E result \in IF fail = "none" THEN ChainResults
                     ELSE {[answer |-> "A", sources |-> "S"]} :
      LET a == llm([self |-> self, built |-> built], ext.llm)
          b == vector_store(a.w, ext.embeddings, ext.vector_store)
      IN /\ self' = IF a.r.ok THEN b.w.self ELSE a.w.self
         /\ built' = IF a.r.ok THEN b.w.built ELSE a.w.built
         /\ ans' =
              IF ~a.r.ok
              THEN AnsRaised(error_handler(a.r).exc, "llm", v, <<>>, 0, 0)
              ELSE IF ~b.r.ok
              THEN AnsRaised(error_handler(b.r).exc, "vector_store", v, <<>>, 0, 1)
              ELSE IF fail = "as_retriever"
              THEN AnsRaised(Foreign("as_retriever failed"), "as_retriever", v,
                             <<>>, 1, 1)
              ELSE IF fail = "from_llm"
              THEN AnsRaised(Foreign("from_llm failed"), "from_llm", v, <<>>, 1, 1)
              ELSE IF fail = "invoke"
              THEN AnsRaised(Foreign("chain failed"), "invoke", v, <<v.value>>, 1, 1)
              ELSE [outcome |-> "returned", exc |-> NoExc, origin |-> NoExc,
                    value |-> <<DictGet(result, "answer", "No answer generated"),
                                DictGet(result, "sources", "No sources found")>>,
                    stage |-> "return", valid |-> TRUE,
                    init_completed |-> init_completed,
                    clean_query |-> v.value, invoked |-> <<v.value>>,
                    retriever_calls |-> 1, llm_uses |-> 1]

generate_answer(query) == generate_answer_validated(validate_query(query))

GenerateAnswer ==
    /\ NoRunInProgress
    /\ \E q \in Queries : generate_answer(q)
    /\ info' = NoInfo
    /\ health' = NoHealth
    /\ UNCHANGED <<collection, uuid_counter, puvars, init_completed, vin, vout>>

(***************************************************************************)
(* get_collection_info and health_check                                     *)
(***************************************************************************)
\* get_collection_info with a guard that tests the handle only
get_collection_info_handle_only(obj, okC) ==
    IF obj._vector_store = None
    THEN [status |-> "not_initialized", count |-> 0]
    ELSE IF okC
    THEN [status |-> "initialized", count |-> Cardinality(collection),
          collection_name |-> "docs"]
    ELSE [status |-> "error", error |-> <<"count failed">>]

\* okC: whether collection.count() succeeds
get_collection_info(obj, okC) ==
    IF ~obj._initialized \/ obj._vector_store = None
    THEN [status |-> "not_initialized", count |-> 0]
    ELSE IF okC
    THEN [status |-> "initialized", count |-> Cardinality(collection),
          collection_name |-> "docs"]
    ELSE [status |-> "error", error |-> <<"count failed">>]

GetCollectionInfo ==
    /\ NoRunInProgress
    /\ \E okC \in BOOLEAN : info' = get_collection_info(self, okC)
    /\ ans' = NoAns
    /\ health' = NoHealth
    /\ UNCHANGED <<self, built, collection, uuid_counter, puvars, init_completed,
                   vin, vout>>

Status(r) == IF r.ok THEN "healthy" ELSE "unhealthy"

\* health_check with an overall verdict taken over every value of the report,
\* the "unknown" of overall itself included
health_check_counts_unknown(w, ext) ==
    LET a == llm(w, ext.llm)
        b == embeddings(a.w, ext.embeddings)
        c == vector_store(b.w, ext.embeddings, ext.vector_store)
        h == [llm |-> Status(a.r), embeddings |-> Status(b.r),
              vector_store |-> Status(c.r), overall |-> "unknown"]
        all_healthy == \A k \in DOMAIN h : h[k] = "healthy"
    IN [w |-> c.w,
        r |-> [h EXCEPT !.overall = IF all_healthy THEN "healthy" ELSE "unhealthy"]]

health_check(w, ext) ==
    LET a == llm(w, ext.llm)
        b == embeddings(a.w, ext.embeddings)
        c == vector_store(b.w, ext.embeddings, ext.vector_store)
        h == [llm |-> Status(a.r), embeddings |-> Status(b.r),
              vector_store |-> Status(c.r), overall |-> "unknown"]
        all_healthy == \A k \in DOMAIN h : h[k] # "unknown" => h[k] = "healthy"
    IN [w |-> c.w,
        r |-> [h EXCEPT !.overall = IF all_healthy THEN "healthy" ELSE "unhealthy"]]

HealthCheck ==
    /\ NoRunInProgress
    /\ \E ext \in ExtFor(self) :
         LET h == health_check([self |-> self, built |-> built], ext)
         IN /\ self' = h.w.self
            /\ built' = h.w.built
            /\ health' = h.r
    /\ ans' = NoAns
    /\ info' = NoInfo
    /\ UNCHANGED <<collection, uuid_counter, puvars, init_completed, vin, vout>>

(***************************************************************************)
(* frontend.py: the except clause that handles what a service call raised   *)
(***************************************************************************)
process_urls_with_ui(e) ==
    CASE e.type = "ValidationError" -> "Validation Error"
      [] e.type = "URLProcessingError" -> "URL Processing Error"
      [] e.type = "VectorStoreError" -> "Database Error"
      [] OTHER -> "Unexpected Error"

display_query_interface(e) ==
    CASE e.type = "ValidationError" -> "Invalid Query"
      [] e.type = "LLMError" -> "AI Error"
      [] e.type = "VectorStoreError" -> "Database Error"
      [] OTHER -> "Unexpected Error"

\* display_sidebar, the status part: the message shown, the counts read from
\* collection_info (none or one) and st.session_state.processing_complete
display_sidebar(collection_info) ==
    IF collection_info.status = "initialized"
    THEN [message |-> "Ready", counts |-> <<collection_info.count>>,
          processing_complete |-> TRUE]
    ELSE IF collection_info.status = "not_initialized"
    THEN [message |-> "Waiting for data processing", counts |-> <<>>,
          processing_complete |-> FALSE]
    ELSE [message |-> "System error", counts |-> <<>>,
          processing_complete |-> FALSE]

(***************************************************************************)
(* The service specification                                                *)
(***************************************************************************)
Init ==
    /\ self = RAGService_init
    /\ built = [llm |-> 0, embeddings |-> 0, vector_store |-> 0]
    /\ collection \in {{}, {StaleEntry}}
    /\ uuid_counter = 0
    /\ run = 0
    /\ pc = "idle"
    /\ urls = <<>>
    /\ valid_urls = <<>>
    /\ documents = <<>>
    /\ chunks = <<>>
    /\ uuids = <<>>
    /\ yielded = <<>>
    /\ steps = <<>>
    /\ raised = NoExc
    /\ origin = NoExc
    /\ failed_at = ""
    /\ init_completed = FALSE
    /\ ans = NoAns
    /\ info = NoInfo
    /\ health = NoHealth
    /\ vin = <<>>
    /\ vout = <<>>

ProcessUrls == \E u \in UrlLists : process_urls(u)

Next ==
    \/ ProcessUrls
    \/ PU_Validate
    \/ PU_Initialize
    \/ PU_Reset
    \/ PU_Load
    \/ PU_Split
    \/ PU_Add
    \/ PU_Finish
    \/ GenerateAnswer
    \/ GetCollectionInfo
    \/ HealthCheck

Spec == Init /\ [][Next]_vars

(***************************************************************************)
(* The validators specification: a validator is applied to one input        *)
(***************************************************************************)
SchemeParts ==
    { <<>>, <<"h","t","t","p">>, <<"h","t","t","p","s">>, <<"H","T","T","P">>,
      <<"f","t","p">>, <<"8","h">>, <<"h","+","p">> }

Separators == { <<>>, <<":">>, <<":","/">>, <<":","/","/">>, <<"/","/">> }

Authorities ==
    { <<>>, <<"a",".","a">>, <<":","8">>, <<"a",".","a",":","8">>,
      <<"s","@","a",".","a">>, <<"s","@">>, <<"@">> }

Paths == { <<>>, <<"/","p">>, <<"?","a">> }

UrlPool ==
    {s \o c \o a \o t : s \in SchemeParts, c \in Separators, a \in Authorities,
                        t \in Paths}

\* URLs that stand at one place of a long list
OddUrls == { FtpUrl, BareUrl, <<"h","t","t","p",":","/","/",":","8">>, OtherUrl }

UrlInputs ==
    {<<u>> : u \in UrlPool}
    \cup {<<GoodUrl, u>> : u \in UrlPool}
    \cup {<<u, GoodUrl>> : u \in UrlPool}
    \cup {[i \in 1..n |-> GoodUrl] : n \in 0..(MAX_URLS_PER_REQUEST + ExtraUrls)}
    \cup {[i \in 1..n |-> IF i = k THEN u ELSE GoodUrl] :
             n \in 1..(MAX_URLS_PER_REQUEST + ExtraUrls),
             k \in 1..(MAX_URLS_PER_REQUEST + ExtraUrls), u \in OddUrls}

InitValidators ==
    /\ self = RAGService_init
    /\ built = [llm |-> 0, embeddings |-> 0, vector_store |-> 0]
    /\ collection = {}
    /\ uuid_counter = 0
    /\ run = 0
    /\ pc = "idle"
    /\ urls = <<>>
    /\ valid_urls = <<>>
    /\ documents = <<>>
    /\ chunks = <<>>
    /\ uuids = <<>>
    /\ yielded = <<>>
    /\ steps = <<>>
    /\ raised = NoExc
    /\ origin = NoExc
    /\ failed_at = ""
    /\ init_completed = FALSE
    /\ ans = NoAns
    /\ info = NoInfo
    /\ health = NoHealth
    /\ vin \in {[fn |-> "validate_urls", arg |-> u] : u \in UrlInputs}
    /\ vout = <<>>

\* vout becomes the one-element sequence holding the outcome of the call
ValidateUrls ==
    /\ vout = <<>>
    /\ vin.fn = "validate_urls"
    /\ vout' = <<validate_urls(vin.arg)>>
    /\ UNCHANGED <<self, built, collection, uuid_counter, puvars, init_completed,
                   ans, info, health, vin>>

NextValidators == ValidateUrls

SpecValidators == InitValidators /\ [][NextValidators]_vars

(***************************************************************************)
(* The query specification: validate_query is applied to one query          *)
(***************************************************************************)
QueryChars == {" ", "\t", "\n", "a", "b", "<", ">", "\"", "'"}

\* every query of at most n characters of QueryChars
RECURSIVE ShortQueries(_)
ShortQueries(n) ==
    IF n = 0 THEN {<<>>}
    ELSE LET shorter == ShortQueries(n - 1)
         IN shorter \cup {Append(q, c) : q \in shorter, c \in QueryChars}

\* n characters, every seventh of them c and the others "a"
Body(n, c) == [i \in 1..n |-> IF i % 7 = 0 THEN c ELSE "a"]

\* queries whose length is near MAX_QUERY_LENGTH, with and without
\* whitespace around them
LongQueries ==
    {pad \o Body(n, c) \o pad :
        pad \in {<<>>, <<" ", "\t">>},
        n \in (MAX_QUERY_LENGTH - 1)..(MAX_QUERY_LENGTH + 1),
        c \in {"a", "<", " "}}
    \cup {Repeat("'", MAX_QUERY_LENGTH + 1)}

QueryInputs == ShortQueries(MaxQueryLen) \cup LongQueries

InitQuery ==
    /\ self = RAGService_init
    /\ built = [llm |-> 0, embeddings |-> 0, vector_store |-> 0]
    /\ collection = {}
    /\ uuid_counter = 0
    /\ run = 0
    /\ pc = "idle"
    /\ urls = <<>>
    /\ valid_urls = <<>>
    /\ documents = <<>>
    /\ chunks = <<>>
    /\ uuids = <<>>
    /\ yielded = <<>>
    /\ steps = <<>>
    /\ raised = NoExc
    /\ origin = NoExc
    /\ failed_at = ""
    /\ init_completed = FALSE
    /\ ans = NoAns
    /\ info = NoInfo
    /\ health = NoHealth
    /\ vin \in {[fn |-> "validate_query", arg |-> q] : q \in QueryInputs}
    /\ vout = <<>>

\* vout becomes the one-element sequence holding the outcome of the call
ValidateQuery ==
    /\ vout = <<>>
    /\ vin.fn = "validate_query"
    /\ vout' = <<validate_query(vin.arg)>>
    /\ UNCHANGED <<self, built, collection, uuid_counter, puvars, init_completed,
                   ans, info, health, vin>>

NextQuery == ValidateQuery

SpecQuery == InitQuery /\ [][NextQuery]_vars

(***************************************************************************)
(* Properties                                                               *)
(***************************************************************************)
OwnOfProcessUrls == {"URLProcessingError", "VectorStoreError"}

OwnOfGenerateAnswer == {"LLMError", "VectorStoreError"}

StepOrder ==
    <<"validate_urls", "initialize", "reset_collection", "load", "split",
      "add_documents">>

Messages == <<MsgInit, MsgReset, MsgLoad, MsgSplit, MsgAdd, MsgDone>>

Range(f) == {f[i] : i \in DOMAIN f}

Distinct(f) == \A i, j \in DOMAIN f : f[i] = f[j] => i = j

\* C1: a generate_answer call with a query that passes validate_query, made
\* while no initialize() call of process_urls has returned, raises the
\* VectorStoreError "Vector store not initialized. Please process URLs
\* first." and calls neither the retriever nor the LLM nor the chain,
\* whatever health_check and get_collection_info calls came before.
C1_RefusesBeforeInitialize ==
    (ans.outcome # "none" /\ ans.valid /\ ~ans.init_completed) =>
        /\ ans.outcome = "raised"
        /\ ans.exc = Exc("VectorStoreError",
                         <<"Vector store not initialized. Please process URLs first.">>)
        /\ ans.invoked = <<>>
        /\ ans.retriever_calls = 0
        /\ ans.llm_uses = 0

\* the refusal happens although health_check has constructed all three handles
C1_Witness ==
    /\ ans.outcome = "raised"
    /\ ans.valid
    /\ ~ans.init_completed
    /\ self._llm # None /\ self._embeddings # None /\ self._vector_store # None
    /\ ~self._initialized

\* C2: a process_urls run that fails raises a URLProcessingError or a
\* VectorStoreError: the exception that reached its except clause unchanged
\* when it is of one of these two types, otherwise a URLProcessingError whose
\* message is "URL processing failed: " followed by the original message.
\* The run has failed exactly when a step raised, the failing step is the
\* last step called, and no step is called twice.
C2_ProcessUrlsErrors ==
    /\ (pc = "failed") <=> (origin # NoExc)
    /\ (pc = "failed") <=> (raised # NoExc)
    /\ pc = "failed" =>
         /\ raised.type \in OwnOfProcessUrls
         /\ origin.type \in OwnOfProcessUrls => raised = origin
         /\ origin.type \notin OwnOfProcessUrls =>
              raised = Exc("URLProcessingError",
                           <<"URL processing failed: ">> \o origin.msg)
         /\ steps # <<>> /\ failed_at = steps[Len(steps)]
    /\ Distinct(steps)

\* an LLMError of initialize reaches the caller as a URLProcessingError
C2_Witness ==
    /\ pc = "failed"
    /\ failed_at = "initialize"
    /\ origin.type = "LLMError"
    /\ raised.type = "URLProcessingError"

\* C3: when reset_collection or add_documents raises during process_urls,
\* the caller receives a VectorStoreError and the front end takes its
\* "Database Error" branch.
C3_VectorStoreFailureIsVectorStoreError ==
    (pc = "failed" /\ failed_at \in {"reset_collection", "add_documents"}) =>
        /\ raised.type = "VectorStoreError"
        /\ process_urls_with_ui(raised) = "Database Error"

\* C4: a generate_answer call either returns one (answer, sources) pair after
\* exactly one chain invocation, made on the validated query, or raises an
\* LLMError or a VectorStoreError: the exception that reached its except
\* clause unchanged when it is of one of these two types, otherwise an
\* LLMError whose message is "Answer generation failed: " followed by the
\* original message.
C4_GenerateAnswerOutcome ==
    /\ ans.outcome = "returned" =>
         /\ ans.valid
         /\ Len(ans.value) = 2
         /\ ans.invoked = <<ans.clean_query>>
         /\ ans.exc = NoExc
    /\ ans.outcome = "raised" =>
         /\ ans.value = <<>>
         /\ Len(ans.invoked) <= 1
         /\ ans.exc.type \in OwnOfGenerateAnswer
         /\ ans.origin.type \in OwnOfGenerateAnswer => ans.exc = ans.origin
         /\ ans.origin.type \notin OwnOfGenerateAnswer =>
              ans.exc = Exc("LLMError",
                            <<"Answer generation failed: ">> \o ans.origin.msg)

\* a ValidationError of validate_query reaches the caller as an LLMError
C4_Witness ==
    /\ ans.outcome = "raised"
    /\ ans.stage = "validate_query"
    /\ ans.origin.type = "ValidationError"
    /\ ans.exc.type = "LLMError"

\* C5: a URL list rejected by validate_urls makes process_urls_with_ui take
\* its "Validation Error" branch, and a query rejected by validate_query
\* makes display_query_interface take its "Invalid Query" branch.
C5_ValidationErrorReachesFrontend ==
    /\ (pc = "failed" /\ failed_at = "validate_urls") =>
          process_urls_with_ui(raised) = "Validation Error"
    /\ (ans.outcome = "raised" /\ ans.stage = "validate_query") =>
          display_query_interface(ans.exc) = "Invalid Query"

\* C6: once a process_urls run has yielded its success message, the
\* collection holds exactly one entry per chunk split from the documents
\* loaded in that run, each under its own id generated in that run, and no
\* entry of an earlier run or an earlier process.
C6_CollectionIsThisRun ==
    pc \in {"finish", "done"} =>
        /\ Len(uuids) = Len(chunks)
        /\ Distinct(uuids)
        /\ \A i \in DOMAIN uuids : uuids[i] > uuid_counter - Len(chunks)
        /\ collection = {[id |-> uuids[i], chunk |-> chunks[i]] : i \in DOMAIN chunks}
        /\ Cardinality(collection) = Len(chunks)
        /\ \A e \in collection :
             /\ e.chunk.run = run
             /\ e.chunk.doc \in DOMAIN documents
             /\ e.chunk.part \in 1..documents[e.chunk.doc].parts
        /\ \A k \in DOMAIN documents : \A j \in 1..documents[k].parts :
             \E e \in collection : e.chunk = [run |-> run, doc |-> k, part |-> j]

\* a second run has succeeded after an earlier run had stored chunks
C6_Witness ==
    /\ pc = "done"
    /\ run = 2
    /\ Len(chunks) >= 2
    /\ uuid_counter > Len(chunks)

\* C7: the steps of a process_urls run are called in the order validate_urls,
\* initialize, reset_collection, load, split, add_documents; a step that
\* raised is the last step of the run; entries of the run are in the
\* collection only after load and split were called; and when the loader
\* yields no documents the run ends there with a URLProcessingError, so
\* add_documents is called only with documents loaded.
C7_StepOrder ==
    /\ Len(steps) <= Len(StepOrder)
    /\ steps = SubSeq(StepOrder, 1, Len(steps))
    /\ failed_at # "" => (pc = "failed" /\ failed_at = steps[Len(steps)])
    /\ (\E e \in collection : run > 0 /\ e.chunk.run = run) =>
          {"load", "split", "add_documents"} \subseteq Range(steps)
    /\ "split" \in Range(steps) => documents # <<>>
    /\ "add_documents" \in Range(steps) =>
          (documents # <<>> /\ chunks = split_documents(run, documents))
    /\ ("load" \in Range(steps) /\ documents = <<>>) =>
          /\ pc = "failed"
          /\ failed_at = "load"
          /\ raised.type = "URLProcessingError"

\* the loader returned no documents and the run ended with the error
C7_Witness ==
    /\ pc = "failed"
    /\ origin = NoDocuments
    /\ raised = NoDocuments
    /\ steps = SubSeq(StepOrder, 1, 4)

\* C8: the messages a process_urls run has yielded are a prefix of the six
\* status messages; the run has yielded all six exactly when it succeeded,
\* and then add_documents has returned; a run that failed has yielded a
\* proper prefix, without the success message, and raised an exception.
C8_StatusMessages ==
    /\ Len(yielded) <= Len(Messages)
    /\ yielded = SubSeq(Messages, 1, Len(yielded))
    /\ pc = "done" => yielded = Messages
    /\ yielded = Messages =>
         /\ pc \in {"finish", "done"}
         /\ steps = StepOrder
         /\ failed_at = ""
         /\ raised = NoExc
    /\ pc = "failed" =>
         /\ Len(yielded) < Len(Messages)
         /\ MsgDone \notin Range(yielded)
         /\ raised # NoExc
         /\ Len(yielded) = Len(steps) - 1

\* a run has succeeded with all six messages
C8_Witness ==
    /\ pc = "done"
    /\ Len(yielded) = 6
    /\ yielded[6] = MsgDone
    /\ collection # {}

\* no client exists and no constructor has run
C9_NoneBuilt ==
    /\ self._llm = None /\ self._embeddings = None /\ self._vector_store = None
    /\ built.llm = 0 /\ built.embeddings = 0 /\ built.vector_store = 0

\* each constructor has succeeded at most once, and a handle is None exactly
\* while its constructor has not succeeded
C9_Once ==
    /\ built.llm <= 1 /\ built.embeddings <= 1 /\ built.vector_store <= 1
    /\ (self._llm = None) <=> (built.llm = 0)
    /\ (self._embeddings = None) <=> (built.embeddings = 0)
    /\ (self._vector_store = None) <=> (built.vector_store = 0)

\* a step leaves a handle that is not None as it is and constructs no client
\* for it
C9_Keeps ==
    /\ self._llm # None => self._llm' = self._llm /\ built.llm' = built.llm
    /\ self._embeddings # None =>
          self._embeddings' = self._embeddings /\ built.embeddings' = built.embeddings
    /\ self._vector_store # None =>
          self._vector_store' = self._vector_store
          /\ built.vector_store' = built.vector_store

\* C9: no client is constructed when the service is constructed; each client
\* is constructed on an access of its property while the handle is None, at
\* most once with success; a handle that is not None keeps its value in
\* every later step, no constructor being called for it again.
C9_LazyHandles == C9_NoneBuilt /\ []C9_Once /\ [][C9_Keeps]_vars

\* all three handles exist and generate_answer has used them
C9_Witness ==
    /\ self._llm # None /\ self._embeddings # None /\ self._vector_store # None
    /\ built = [llm |-> 1, embeddings |-> 1, vector_store |-> 1]
    /\ ans.outcome = "returned"

HasHost(url) == hostname(urlparse(url).netloc) # <<>>

HasNetloc(url) == urlparse(url).netloc # <<>>

HasWebScheme(url) ==
    urlparse(url).scheme \in {<<"h","t","t","p">>, <<"h","t","t","p","s">>}

\* C10: validate_urls returns its input list unchanged exactly when the list
\* is not empty, has at most max_urls_per_request elements and every element
\* has scheme http or https and a non-empty host; otherwise it raises
\* ValidationError.
C10_AllOrNothing ==
    vout # <<>> =>
        LET r == vout[1]
            good == /\ vin.arg # <<>>
                    /\ Len(vin.arg) <= 10
                    /\ \A i \in DOMAIN vin.arg :
                         HasWebScheme(vin.arg[i]) /\ HasHost(vin.arg[i])
        IN /\ r.ok <=> good
           /\ r.ok => r.value = vin.arg
           /\ ~r.ok => r.exc.type = "ValidationError"

\* The statement of C10 with the netloc (which may hold only userinfo or a
\* port) in the place of the host: this is what validate_url tests.
C10_WithNetloc ==
    vout # <<>> =>
        LET r == vout[1]
            good == /\ vin.arg # <<>>
                    /\ Len(vin.arg) <= 10
                    /\ \A i \in DOMAIN vin.arg :
                         HasWebScheme(vin.arg[i]) /\ HasNetloc(vin.arg[i])
        IN /\ r.ok <=> good
           /\ r.ok => r.value = vin.arg
           /\ ~r.ok => r.exc.type = "ValidationError"

C11_Removed == {"<", ">", "\"", "'"}

\* q is empty or holds whitespace only
C11_Blank(q) == \A k \in DOMAIN q : q[k] \in Whitespace

\* the number of whitespace characters q begins with
C11_Leading(q) ==
    CHOOSE i \in 0..Len(q) :
        /\ \A j \in 1..i : q[j] \in Whitespace
        /\ i = Len(q) \/ q[i + 1] \notin Whitespace

\* the number of whitespace characters q ends with
C11_Trailing(q) ==
    CHOOSE i \in 0..Len(q) :
        /\ \A j \in (Len(q) - i + 1)..Len(q) : q[j] \in Whitespace
        /\ i = Len(q) \/ q[Len(q) - i] \notin Whitespace

\* q without the whitespace it begins and ends with
C11_Trimmed(q) ==
    IF C11_Blank(q) THEN <<>>
    ELSE SubSeq(q, C11_Leading(q) + 1, Len(q) - C11_Trailing(q))

\* r is t with every character of C11_Removed taken out: the k-th character
\* of t that is kept stands in r at the place given by the number of kept
\* characters up to k, and r holds nothing else
C11_IsRemoval(r, t) ==
    /\ Len(r) = Cardinality({k \in DOMAIN t : t[k] \notin C11_Removed})
    /\ \A k \in DOMAIN t :
         t[k] \notin C11_Removed =>
            r[Cardinality({j \in 1..k : t[j] \notin C11_Removed})] = t[k]

\* the outcome r of validate_query on the query q whose trimmed form is t
C11_Outcome(q, r, t) ==
    /\ ~r.ok <=> (C11_Blank(q) \/ Len(t) > 500)
    /\ ~r.ok => r.exc.type = "ValidationError"
    /\ r.ok =>
         /\ C11_IsRemoval(r.value, t)
         /\ Len(r.value) <= 500
         /\ \A k \in DOMAIN r.value : r.value[k] \notin C11_Removed

\* C11: validate_query raises ValidationError when the query is empty or
\* whitespace-only or when its trimmed length exceeds 500; otherwise it
\* returns the trimmed query with every < > " ' removed and all other
\* characters kept in order, so the result has at most 500 characters and
\* none of those four.
C11_ValidateQuery ==
    vout # <<>> => C11_Outcome(vin.arg, vout[1], C11_Trimmed(vin.arg))

\* a query is returned that had whitespace around it, a trimmed length of
\* exactly 500 and characters to remove inside
C11_Witness ==
    /\ vout # <<>>
    /\ vout[1].ok
    /\ vin.arg[1] \in Whitespace
    /\ Len(C11_Trimmed(vin.arg)) = 500
    /\ \E k \in DOMAIN vin.arg : vin.arg[k] \in C11_Removed
    /\ Len(vout[1].value) < 500

\* the report of the most recent get_collection_info call, against the
\* service as the call left it
C12_Report ==
    info # NoInfo =>
        /\ info.status \in {"not_initialized", "initialized", "error"}
        /\ info.status = "not_initialized" <=>
              (~self._initialized \/ self._vector_store = None)
        /\ info.status = "not_initialized" => info.count = 0
        /\ info.status = "initialized" => info.count = Cardinality(collection)
        /\ info.status = "error" => "count" \notin DOMAIN info
        /\ display_sidebar(info).counts # <<>> => info.status = "initialized"

\* a step that ends with a report of get_collection_info is a call of it,
\* and leaves the service, the clients and the collection as they were
C12_NoChange ==
    info' # NoInfo =>
        UNCHANGED <<self, built, collection, uuid_counter, puvars, init_completed>>

\* C12: get_collection_info never raises and changes no service state: it
\* returns status 'not_initialized' with count 0 exactly when _initialized
\* is False or _vector_store is None, 'initialized' with the collection's
\* current entry count otherwise, and 'error' with no count when reading the
\* count fails; the sidebar reads the count only when the status is
\* 'initialized'.
C12_CollectionInfo == []C12_Report /\ [][C12_NoChange]_vars

\* the count of a collection that holds the chunks of a run is reported and
\* shown
C12_Witness ==
    /\ info # NoInfo
    /\ info.status = "initialized"
    /\ info.count >= 2
    /\ display_sidebar(info).counts = <<Cardinality(collection)>>

C13_Component(handle) == IF handle # None THEN "healthy" ELSE "unhealthy"

=============================================================================
